---- MODULE Spec2Model ----
(***************************************************************************)
(* A model of the path tracer of cpp-ray-tracer: the scene intersection    *)
(* query, the material protocol, the recursive integrator                  *)
(* (Scene::getRayHit / Scene::samplePixel) and the multi-threaded          *)
(* scanline scheduler (Scene::Render).                                     *)
(*                                                                         *)
(* Numbers.  A C++ double d is modelled by the integer d * Scale (fixed    *)
(* point, three decimal digits, products and quotients truncated toward    *)
(* zero); +inf is the integer `infinity`, larger than every finite value   *)
(* of the model.  Vec3 / Color / Point3 are triples of such numbers.       *)
(***************************************************************************)
EXTENDS Integers, Sequences, FiniteSets, TLC

\* ------------------------------------------------------------------ numbers

\* One unit (1.0) of the fixed-point representation of double.
Scale == 10 * 10 * 10

\* Utils.h: const double infinity
infinity == 1000000000

Abs(x) == IF x < 0 THEN -x ELSE x

Min(a, b) == IF a < b THEN a ELSE b

\* Integer quotient truncated toward zero (the sign symmetry of IEEE division).
TruncDiv(n, d) ==
    IF (n >= 0) = (d > 0) THEN Abs(n) \div Abs(d) ELSE -(Abs(n) \div Abs(d))

\* a * b on doubles.
FMul(a, b) == TruncDiv(a * b, Scale)

\* a / b on doubles (b # 0).
FDiv(a, b) == TruncDiv(a * Scale, b)

\* The double NaN, where a computation can produce it.
NaN == infinity + 1

\* std::isfinite(x)
isfinite(x) == x # NaN /\ x < infinity /\ x > -infinity

\* a / b on doubles where b may be 0: x/0 is +inf, -inf or NaN by the sign
\* of x.
FDivIEEE(a, b) ==
    IF b # 0 THEN TruncDiv(a * Scale, b)
    ELSE IF a > 0 THEN infinity ELSE IF a < 0 THEN -infinity ELSE NaN

\* a + b on doubles, where one of them may be +inf (inf + finite = inf).
FAdd(a, b) == IF a >= infinity \/ b >= infinity THEN infinity ELSE a + b

RECURSIVE SqrtSearch(_, _, _)
\* The largest s in lo..hi with s * s <= n (lo * lo <= n is given).
SqrtSearch(n, lo, hi) ==
    IF lo >= hi THEN lo
    ELSE LET mid == (lo + hi + 1) \div 2
         IN  IF mid * mid <= n THEN SqrtSearch(n, mid, hi)
                               ELSE SqrtSearch(n, lo, mid - 1)

\* std::sqrt on a double x >= 0.
FSqrt(x) == SqrtSearch(x * Scale, 0, 46340)

\* Utils.h: linear_to_gamma
linear_to_gamma(linear_component) ==
    IF linear_component = NaN THEN 0
    ELSE IF linear_component >= infinity THEN infinity
    ELSE IF linear_component > 0 THEN FSqrt(linear_component)
    ELSE 0

\* --------------------------------------------------------------------- Vec3

\* Vec3(): e{0,0,0}
Vec0 == <<0, 0, 0>>

Vec3(e0, e1, e2) == <<e0 * Scale, e1 * Scale, e2 * Scale>>

VNeg(v) == <<-v[1], -v[2], -v[3]>>

VAdd(u, v) == <<u[1] + v[1], u[2] + v[2], u[3] + v[3]>>

VSub(u, v) == <<u[1] - v[1], u[2] - v[2], u[3] - v[3]>>

\* operator*(const Vec3&, const Vec3&): component-wise product
VMul(u, v) == <<FMul(u[1], v[1]), FMul(u[2], v[2]), FMul(u[3], v[3])>>

\* operator*(double, const Vec3&)
VScale(t, v) == <<FMul(t, v[1]), FMul(t, v[2]), FMul(t, v[3])>>

\* operator/(const Vec3&, double): (1 / t) * v
VDiv(v, t) == VScale(FDiv(Scale, t), v)

dot(u, v) == FMul(u[1], v[1]) + FMul(u[2], v[2]) + FMul(u[3], v[3])

length_squared(v) == dot(v, v)

length(v) == FSqrt(length_squared(v))

\* Vec3::near_zero: every |component| < 1e-8, below the model's resolution.
near_zero(v) == v[1] = 0 /\ v[2] = 0 /\ v[3] = 0

normalize(v) == VDiv(v, length(v))

lerp(a, b, t) == VAdd(VScale(Scale - t, a), VScale(t, b))

reflect(v, n) == VSub(v, VScale(FMul(2 * Scale, dot(v, n)), n))

refract(uv, n, etai_over_etat) ==
    LET cos_theta      == Min(dot(VNeg(uv), n), Scale)
        r_out_perp     == VScale(etai_over_etat, VAdd(uv, VScale(cos_theta, n)))
        r_out_parallel == VScale(-FSqrt(Abs(Scale - length_squared(r_out_perp))), n)
    IN  VAdd(r_out_perp, r_out_parallel)

\* ----------------------------------------------------------------- Interval

Interval(lo, hi) == [min |-> lo, max |-> hi]

\* A variant of surrounds that accepts the upper end point.
surroundsClosed(iv, x) == iv.min < x /\ x <= iv.max

surrounds(iv, x) == iv.min < x /\ x < iv.max

contains(iv, x) == iv.min <= x /\ x <= iv.max

clamp(iv, x) == IF x < iv.min THEN iv.min ELSE IF x > iv.max THEN iv.max ELSE x

IntervalEmpty == Interval(infinity, -infinity)

IntervalUniverse == Interval(-infinity, infinity)

\* ---------------------------------------------------------------------- Ray

Ray(origin, direction) == [orig |-> origin, dir |-> direction]

\* Ray::at(t): origin + t * direction
RayAt(r, t) == VAdd(r.orig, VScale(t, r.dir))

\* ---------------------------------------------------------------- Materials

\* A material object.  kind is the dynamic type; the other fields are the
\* members of that class (0 where the class has no such member).
MakeLambertian(albedo) ==
    [kind |-> "Lambertian", albedo |-> albedo, fuzz |-> 0,
     refractive_index |-> 0, emit_color |-> Vec0, intensity |-> 0]

MakeMetal(albedo, fuzz) ==
    [kind |-> "Metal", albedo |-> albedo, fuzz |-> fuzz,
     refractive_index |-> 0, emit_color |-> Vec0, intensity |-> 0]

MakeDielectric(refractive_index) ==
    [kind |-> "Dielectric", albedo |-> Vec0, fuzz |-> 0,
     refractive_index |-> refractive_index, emit_color |-> Vec0, intensity |-> 0]

MakeEmission(emit_color, intensity) ==
    [kind |-> "Emission", albedo |-> Vec0, fuzz |-> 0,
     refractive_index |-> 0, emit_color |-> emit_color, intensity |-> intensity]

\* Dielectric::reflectance (Schlick's approximation)
reflectance(cosine, refraction_index) ==
    LET r0 == FDiv(Scale - refraction_index, Scale + refraction_index)
        r1 == FMul(r0, r0)
        p  == Scale - cosine
        p5 == FMul(FMul(FMul(FMul(p, p), p), p), p)
    IN  r1 + FMul(Scale - r1, p5)

\* A variant of Lambertian::fall that reflects all light, whatever the albedo.
LambertianFallWhite(mat, r_in, rec, out, ruv) ==
    LET sum               == VAdd(rec.normal, ruv)
        scatter_direction == IF near_zero(sum) THEN rec.normal ELSE sum
    IN  [out_albedo  |-> <<Scale, Scale, Scale>>,
         attenuation |-> <<Scale, Scale, Scale>>,
         scattered   |-> Ray(rec.hitPoint, scatter_direction),
         scatter     |-> TRUE,
         emit        |-> FALSE]

\* Lambertian::fall.  ruv is the value random_unit_vector() returns.
LambertianFall(mat, r_in, rec, out, ruv) ==
    LET sum               == VAdd(rec.normal, ruv)
        scatter_direction == IF near_zero(sum) THEN rec.normal ELSE sum
    IN  [out_albedo  |-> mat.albedo,
         attenuation |-> mat.albedo,
         scattered   |-> Ray(rec.hitPoint, scatter_direction),
         scatter     |-> TRUE,
         emit        |-> FALSE]

\* A variant of Metal::fall that scatters whatever the reflected direction.
MetalFallAlwaysScatter(mat, r_in, rec, out, ruv) ==
    LET reflected == VAdd(normalize(reflect(r_in.dir, rec.normal)),
                          VScale(mat.fuzz, ruv))
    IN  [out_albedo  |-> mat.albedo,
         attenuation |-> mat.albedo,
         scattered   |-> Ray(rec.hitPoint, reflected),
         scatter     |-> TRUE,
         emit        |-> FALSE]

\* Metal::fall.  ruv is the value random_unit_vector() returns.
MetalFall(mat, r_in, rec, out, ruv) ==
    LET reflected == VAdd(normalize(reflect(r_in.dir, rec.normal)),
                          VScale(mat.fuzz, ruv))
    IN  [out_albedo  |-> mat.albedo,
         attenuation |-> mat.albedo,
         scattered   |-> Ray(rec.hitPoint, reflected),
         scatter     |-> dot(reflected, rec.normal) > 0,
         emit        |-> FALSE]

\* Dielectric::fall.  xi is the value random_double() returns.
DielectricFall(mat, r_in, rec, out, xi) ==
    LET ri == IF rec.front_face THEN FDiv(Scale, mat.refractive_index)
                                ELSE mat.refractive_index
        unit_direction == normalize(r_in.dir)
        cos_theta      == Min(dot(VNeg(unit_direction), rec.normal), Scale)
        sin2           == Scale - FMul(cos_theta, cos_theta)
        \* sqrt of a negative number is NaN, and NaN > 1.0 is false
        cannot_refract == sin2 >= 0 /\ FMul(ri, FSqrt(sin2)) > Scale
        direction      == IF cannot_refract \/ reflectance(cos_theta, ri) > xi
                          THEN reflect(unit_direction, rec.normal)
                          ELSE refract(unit_direction, rec.normal, ri)
    IN  [out_albedo  |-> Vec3(1, 1, 1),
         attenuation |-> Vec3(1, 1, 1),
         scattered   |-> Ray(rec.hitPoint, direction),
         scatter     |-> TRUE,
         emit        |-> FALSE]

\* Emission::fall: `scattered` is left as the caller passed it.
EmissionFall(mat, r_in, rec, out) ==
    [out_albedo  |-> mat.emit_color,
     attenuation |-> VScale(mat.intensity, mat.emit_color),
     scattered   |-> out.scattered,
     scatter     |-> FALSE,
     emit        |-> TRUE]

\* The virtual call mat->fall(r_in, rec, out_albedo, attenuation, scattered,
\* scatter, emit): `out` holds the five reference parameters as the caller
\* passed them, the result holds them as the callee leaves them.
fall(mat, r_in, rec, out, ruv, xi) ==
    CASE mat.kind = "Lambertian" -> LambertianFall(mat, r_in, rec, out, ruv)
      [] mat.kind = "Metal"      -> MetalFall(mat, r_in, rec, out, ruv)
      [] mat.kind = "Dielectric" -> DielectricFall(mat, r_in, rec, out, xi)
      [] mat.kind = "Emission"   -> EmissionFall(mat, r_in, rec, out)
      [] OTHER                   -> out   \* Material::fall: return;

\* ------------------------------------------------------------------- Sphere

\* Sphere(center, radius, mat): radius(std::fmax(0, radius))
MakeSphere(center, radius, mat) ==
    [center |-> center, radius |-> IF radius < 0 THEN 0 ELSE radius, mat |-> mat]

\* A HitRecord nothing has been written to.
NoRec == [hitPoint |-> Vec0, normal |-> Vec0, t |-> 0, front_face |-> FALSE,
          mat |-> [kind |-> "none"]]

\* A variant of Sphere::RayHit that tries the far root before the near one.
SphereRayHitFarFirst(s, r, ray_t) ==
    LET oc           == VSub(s.center, r.orig)
        a            == length_squared(r.dir)
        h            == dot(r.dir, oc)
        c            == dot(oc, oc) - FMul(s.radius, s.radius)
        discriminant == FMul(h, h) - FMul(a, c)
    IN  IF discriminant < 0 \/ a = 0 THEN [hit |-> FALSE, rec |-> NoRec]
        ELSE
          LET sqrtd == FSqrt(discriminant)
              near  == FDiv(h - sqrtd, a)
              far   == FDiv(h + sqrtd, a)
          IN  IF ~surrounds(ray_t, near) /\ ~surrounds(ray_t, far)
              THEN [hit |-> FALSE, rec |-> NoRec]
              ELSE
                LET root           == IF surrounds(ray_t, far) THEN far ELSE near
                    hitPoint       == RayAt(r, root)
                    outward_normal == VDiv(VSub(hitPoint, s.center), s.radius)
                    inside         == dot(r.dir, outward_normal) > 0
                IN  [hit |-> TRUE,
                     rec |-> [hitPoint   |-> hitPoint,
                              normal     |-> IF inside THEN VNeg(outward_normal)
                                                       ELSE outward_normal,
                              t          |-> root,
                              front_face |-> ~inside,
                              mat        |-> s.mat]]

\* Sphere::RayHit(r, hit, ray_t): [hit |-> the bool returned, rec |-> `hit` as
\* written].  With a zero direction a = 0 and both roots are 0/0 = NaN, which
\* no interval surrounds.
SphereRayHit(s, r, ray_t) ==
    LET oc           == VSub(s.center, r.orig)
        a            == length_squared(r.dir)
        h            == dot(r.dir, oc)
        c            == dot(oc, oc) - FMul(s.radius, s.radius)
        discriminant == FMul(h, h) - FMul(a, c)
    IN  IF discriminant < 0 \/ a = 0 THEN [hit |-> FALSE, rec |-> NoRec]
        ELSE
          LET sqrtd == FSqrt(discriminant)
              near  == FDiv(h - sqrtd, a)
              far   == FDiv(h + sqrtd, a)
          IN  IF ~surrounds(ray_t, near) /\ ~surrounds(ray_t, far)
              THEN [hit |-> FALSE, rec |-> NoRec]
              ELSE
                LET root           == IF surrounds(ray_t, near) THEN near ELSE far
                    hitPoint       == RayAt(r, root)
                    outward_normal == VDiv(VSub(hitPoint, s.center), s.radius)
                    inside         == dot(r.dir, outward_normal) > 0
                IN  [hit |-> TRUE,
                     rec |-> [hitPoint   |-> hitPoint,
                              normal     |-> IF inside THEN VNeg(outward_normal)
                                                       ELSE outward_normal,
                              t          |-> root,
                              front_face |-> ~inside,
                              mat        |-> s.mat]]

\* ------------------------------------------------------------------- bounds

\* Most objects a scene holds.
MaxObjects == 2

\* Largest max_bouces.
MaxBounces == 2

\* Largest samples_per_pixel.
MaxSamples == 1

\* Largest canvas_height.
MaxHeight == 3

\* Largest canvas_width.
MaxWidth == 2

\* Largest hardware_concurrency().
MaxThreads == 3

\* Largest canvas_height where the random generator's state is followed.
SeededHeight == 2

\* Most workers Render starts: the fallback count 4 or MaxThreads.
MaxWorkers == IF MaxThreads < 4 THEN 4 ELSE MaxThreads

\* The spheres a scene is built from: small spheres on the -z axis in front
\* of the camera (the first two are hit at the same t by a ray along -z) and
\* a sphere around the camera that closes the scene.
SphereSet ==
    { MakeSphere(<<0, 0, -2 * Scale>>, Scale \div 2,
                 MakeLambertian(<<Scale \div 2, Scale \div 2, Scale \div 2>>)),
      MakeSphere(<<0, 0, -5 * (Scale \div 2)>>, Scale,
                 MakeEmission(Vec3(1, 1, 1), 5 * Scale)),
      MakeSphere(<<0, 0, -2 * Scale>>, Scale \div 2,
                 MakeMetal(<<4 * (Scale \div 5), 3 * (Scale \div 5), Scale \div 5>>, Scale)),
      MakeSphere(<<0, 0, -3 * Scale>>, Scale \div 2,
                 MakeDielectric(3 * (Scale \div 2))),
      MakeSphere(Vec0, 4 * Scale, MakeLambertian(Vec0)) }

\* The camera rays getRay hands to getRayHit in the model.
CameraRays ==
    { Ray(Vec0, Vec3(0, 0, -1)), Ray(Vec0, Vec3(0, 3, -4)) }

\* The spheres of a fully absorptive scene: Lambertian with albedo (0,0,0),
\* one in front of the camera and one around it.
BlackSpheres ==
    { MakeSphere(<<0, 0, -2 * Scale>>, Scale \div 2, MakeLambertian(Vec0)),
      MakeSphere(Vec0, 4 * Scale, MakeLambertian(Vec0)) }

\* Camera rays that hit the sphere in front of the camera, on and off its axis.
BlackRays ==
    { Ray(Vec0, Vec3(0, 0, -1)), Ray(Vec0, <<0, Scale \div 4, -2 * Scale>>) }

\* The rays Sphere::RayHit is called with directly: the camera rays and one
\* that points away from every small sphere.
HitRays == CameraRays \cup { Ray(Vec0, Vec3(0, 0, 1)) }

\* The intervals Sphere::RayHit is called with directly: the default argument,
\* the empty interval, the clip interval, and intervals whose end points lie
\* on, between and beside the roots 1.5 and 2.5 of the small spheres.
HitIntervals ==
    { IntervalUniverse, IntervalEmpty,
      Interval(Scale \div 1000, infinity),
      Interval(Scale \div 1000, 3 * (Scale \div 2)),
      Interval(3 * (Scale \div 2), infinity),
      Interval(3 * (Scale \div 2), 5 * (Scale \div 2)),
      Interval(2 * Scale, 3 * Scale),
      Interval(0, Scale) }

\* The values random_unit_vector() returns in the model.
UnitVectors == { Vec3(0, 0, -1), Vec3(0, 1, 0) }

\* The values random_double() returns in the model.
Draws == { 0, Scale \div 2 }

\* The values an uninitialized double may hold.
Indeterminate == { 0, 7 * Scale }

\* The exposure setting of the model (the default is 1.0).
Exposures == { 2 * Scale }

\* ---------------------------------------------------------------- the state

VARIABLES
    stage,                \* "config", "build" (Init() done) or "sampling"
    objects,              \* Scene::objects
    clip_interval,        \* Scene::clip_interval
    exposure,             \* Scene::exposure
    max_bouces,           \* Scene::max_bouces
    samples_per_pixel,    \* Scene::samples_per_pixel
    pixel_samples_scale,  \* Scene::pixel_samples_scale
    sp,                   \* the activation of samplePixel
    frames,               \* the chain of getRayHit activations of this sample
    canvas_height,        \* Scene::canvas_height
    canvas_width,         \* Scene::canvas_width
    hardware_concurrency, \* what std::thread::hardware_concurrency() returns
    color_map,            \* Scene::color_map, index -> value
    albedo_map,           \* Scene::albedo_map
    normal_map,           \* Scene::normal_map
    depth_map,            \* Scene::depth_map
    render,               \* the activation of Render on the calling thread
    threads,              \* Render's `threads`: the workers, in spawn order
    lines_done,           \* Render's std::atomic<int> lines_done
    console_mutex,        \* console_mutex: who has locked it, if anyone
    clog,                 \* the progress lines written to std::clog
    rand_next,            \* the hidden state of std::rand: draws made so far
    writes,               \* history: index -> writes per buffer and writers
    accesses,             \* history: who read and wrote the shared objects
    drawn,                \* history: index -> the random_double values used
    hit_call,             \* a call of Sphere::RayHit made directly, and its result
    write                 \* the activation of Scene::Write

traceVars == <<stage, objects, clip_interval, exposure, max_bouces,
               samples_per_pixel, pixel_samples_scale, sp, frames>>

renderVars == <<canvas_height, canvas_width, hardware_concurrency, color_map,
                albedo_map, normal_map, depth_map, render, threads, lines_done,
                console_mutex, clog, rand_next, writes, accesses, drawn>>

callVars == <<hit_call, write>>

vars == <<traceVars, renderVars, callVars>>

\* PixelInfo, default-initialized: the Vec3 members are zeroed by Vec3(), the
\* double `depth` holds whatever was there (g).
PixelInfo(g) == [color |-> Vec0, albedo |-> Vec0, normal |-> Vec0, depth |-> g]

\* The reference parameters of fall before any call.
NoOut == [out_albedo |-> Vec0, attenuation |-> Vec0,
          scattered |-> Ray(Vec0, Vec0), scatter |-> FALSE, emit |-> FALSE]

\* The activation of getRayHit(r, bounce_depth, pixel) on entry.  hit_index is
\* the position in `objects` of the object `rec` was copied from (0: none);
\* out records fall's reference parameters, under the names fall gives them,
\* as the material left them.
NewFrame(r, bounce_depth, g) ==
    [r |-> r, bounce_depth |-> bounce_depth, pixel |-> PixelInfo(g),
     pc |-> "entry", k |-> 1, hit_anything |-> FALSE, closest_so_far |-> 0,
     rec |-> NoRec, hit_index |-> 0,
     emitted |-> Vec0, attenuation |-> Vec0, albedo |-> Vec0,
     scattered |-> Ray(Vec0, Vec0), didScatter |-> FALSE, didEmit |-> FALSE,
     out |-> NoOut]

\* ---------------------------------------------------------- Scene::getRayHit

\* The bounce-budget test and the locals of the nearest-hit loop.
GetRayHitEntry(f) ==
    IF f.bounce_depth <= 0
    THEN [f EXCEPT !.pixel.color = Vec3(0, 0, 0), !.pc = "ret"]
    ELSE [f EXCEPT !.hit_anything = FALSE,
                   !.closest_so_far = clip_interval.max,
                   !.k = 1, !.pc = "loop"]

\* One iteration of `for (const auto& obj : objects)`.
NearestHitBody(f) ==
    LET res == SphereRayHit(objects[f.k], f.r,
                            Interval(clip_interval.min, f.closest_so_far))
    IN  IF res.hit
        THEN [f EXCEPT !.hit_anything = TRUE, !.closest_so_far = res.rec.t,
                       !.rec = res.rec, !.hit_index = f.k, !.k = f.k + 1]
        ELSE [f EXCEPT !.k = f.k + 1]

\* A variant of Background that leaves the exposure out.
BackgroundUnexposed(f) ==
    LET unit_direction == normalize(f.r.dir)
        t == FDiv(unit_direction[2] + Scale, 2 * Scale)
    IN  [f EXCEPT !.pixel.color  = lerp(Vec3(1, 1, 1),
                                        <<Scale \div 2, 7 * (Scale \div 10), Scale>>,
                                        t),
                  !.pixel.albedo = Vec0,
                  !.pixel.normal = Vec0,
                  !.pixel.depth  = clip_interval.max,
                  !.pc = "ret"]

\* The background of a ray that hits nothing.
Background(f) ==
    LET unit_direction == normalize(f.r.dir)
        t == FDiv(unit_direction[2] + Scale, 2 * Scale)
    IN  [f EXCEPT !.pixel.color  = lerp(VScale(exposure, Vec3(1, 1, 1)),
                                        VScale(exposure, <<Scale \div 2,
                                                           7 * (Scale \div 10),
                                                           Scale>>), t),
                  !.pixel.albedo = Vec0,
                  !.pixel.normal = Vec0,
                  !.pixel.depth  = clip_interval.max,
                  !.pc = "ret"]

\* if (hit_anything) { ... } up to the recursive call: the material is asked,
\* with the locals `attenuation` and `albedo` passed for fall's parameters
\* out_albedo and attenuation in that order.
ShadeHit(f, ruv, xi) ==
    LET res == fall(f.rec.mat, f.r, f.rec,
                    [out_albedo  |-> f.attenuation,
                     attenuation |-> f.albedo,
                     scattered   |-> f.scattered,
                     scatter     |-> FALSE,
                     emit        |-> FALSE], ruv, xi)
        attenuation == res.out_albedo
        albedo      == res.attenuation
        emitted     == IF res.emit THEN attenuation ELSE Vec3(0, 0, 0)
    IN  [f EXCEPT !.out = res,
                  !.attenuation = attenuation, !.albedo = albedo,
                  !.scattered = res.scattered,
                  !.didScatter = res.scatter, !.didEmit = res.emit,
                  !.emitted = emitted,
                  !.pixel.albedo = albedo,
                  !.pixel.normal = f.rec.normal,
                  !.pixel.depth  = f.rec.t,
                  !.pixel.color  = IF res.scatter THEN f.pixel.color ELSE emitted,
                  !.pc = IF res.scatter THEN "wait" ELSE "ret"]

\* A variant of Combine that takes albedo, normal and depth from pixel2 too.
CombineOverwrite(f, pixel2) ==
    [f EXCEPT !.pixel = [pixel2 EXCEPT !.color =
                           VAdd(f.emitted, VMul(f.attenuation, pixel2.color))],
              !.pc = "ret"]

\* pixel.color = emitted + attenuation * pixel2.color, after the recursive
\* call has filled pixel2 (the pixel of the next activation).
Combine(f, pixel2) ==
    [f EXCEPT !.pixel.color = VAdd(f.emitted, VMul(f.attenuation, pixel2.color)),
              !.pc = "ret"]

\* A variant of RecurseDepth that hands the budget on unchanged.
RecurseSameDepth(f) == f.bounce_depth

\* The bounce budget handed to the recursive call.
RecurseDepth(f) == f.bounce_depth - 1

\* -------------------------------------------------------- Scene::samplePixel

\* The body of the sample loop after getRayHit(r, max_bouces, pixel2) returns.
Accumulate(pixel1, pixel2) ==
    [color  |-> VAdd(pixel1.color, pixel2.color),
     albedo |-> VAdd(pixel1.albedo, pixel2.albedo),
     normal |-> VAdd(pixel1.normal, pixel2.normal),
     depth  |-> FAdd(pixel1.depth, pixel2.depth)]

\* pixel = pixel_samples_scale * pixel1, field by field.
Averaged(pixel1) ==
    [color  |-> VScale(pixel_samples_scale, pixel1.color),
     albedo |-> VScale(pixel_samples_scale, pixel1.albedo),
     normal |-> VScale(pixel_samples_scale, pixel1.normal),
     depth  |-> IF pixel1.depth >= infinity THEN infinity
                ELSE FMul(pixel_samples_scale, pixel1.depth)]

\* ------------------------------------------------------------------ actions

\* Scene::Init(): the part the integrator reads.
SceneInit ==
    /\ stage = "config"
    /\ stage' = "build"
    /\ pixel_samples_scale' = FDiv(Scale, samples_per_pixel * Scale)
    /\ UNCHANGED <<renderVars, callVars>>
    /\ UNCHANGED <<objects, clip_interval, exposure, max_bouces,
                   samples_per_pixel, sp, frames>>

\* Scene::AddObject(obj)
AddObject(obj) ==
    /\ stage \in {"config", "build"}
    /\ Len(objects) < MaxObjects
    /\ objects' = Append(objects, obj)
    /\ UNCHANGED <<renderVars, callVars>>
    /\ UNCHANGED <<stage, clip_interval, exposure, max_bouces,
                   samples_per_pixel, pixel_samples_scale, sp, frames>>

\* samplePixel(i, j, pixel) is entered: PixelInfo pixel1; pixel1.depth = 0.0;
SamplePixelEnter ==
    /\ stage = "build"
    /\ stage' = "sampling"
    /\ sp' = [pc |-> "loop", sample |-> 0, pixel1 |-> PixelInfo(0),
              pixel |-> PixelInfo(0), set |-> FALSE]
    /\ UNCHANGED <<renderVars, callVars>>
    /\ UNCHANGED <<objects, clip_interval, exposure, max_bouces,
                   samples_per_pixel, pixel_samples_scale, frames>>

\* Ray r = getRay(i, j); PixelInfo pixel2; getRayHit(r, max_bouces, pixel2);
SampleCall(r, g) ==
    /\ stage = "sampling"
    /\ sp.pc = "loop"
    /\ sp.sample < samples_per_pixel
    /\ frames' = <<NewFrame(r, max_bouces, g)>>
    /\ sp' = [sp EXCEPT !.pc = "call"]
    /\ UNCHANGED <<renderVars, callVars>>
    /\ UNCHANGED <<stage, objects, clip_interval, exposure, max_bouces,
                   samples_per_pixel, pixel_samples_scale>>

\* getRayHit: entry of activation d.
RayHitEnter(d) ==
    /\ d \in 1..Len(frames)
    /\ frames[d].pc = "entry"
    /\ frames' = [frames EXCEPT ![d] = GetRayHitEntry(frames[d])]
    /\ UNCHANGED <<renderVars, callVars>>
    /\ UNCHANGED <<stage, objects, clip_interval, exposure, max_bouces,
                   samples_per_pixel, pixel_samples_scale, sp>>

\* getRayHit: one object of the nearest-hit loop.
RayHitLoop(d) ==
    /\ d \in 1..Len(frames)
    /\ frames[d].pc = "loop"
    /\ frames[d].k <= Len(objects)
    /\ frames' = [frames EXCEPT ![d] = NearestHitBody(frames[d])]
    /\ UNCHANGED <<renderVars, callVars>>
    /\ UNCHANGED <<stage, objects, clip_interval, exposure, max_bouces,
                   samples_per_pixel, pixel_samples_scale, sp>>

\* getRayHit: the loop is over and something was hit; when the material
\* scatters, getRayHit(scattered, bounce_depth - 1, pixel2) is called.
RayHitShade(d, ruv, xi, g) ==
    /\ d \in 1..Len(frames)
    /\ frames[d].pc = "loop"
    /\ frames[d].k > Len(objects)
    /\ frames[d].hit_anything
    /\ LET f == ShadeHit(frames[d], ruv, xi)
       IN  frames' = IF f.didScatter
                     THEN Append([frames EXCEPT ![d] = f],
                                 NewFrame(f.scattered, RecurseDepth(f), g))
                     ELSE [frames EXCEPT ![d] = f]
    /\ UNCHANGED <<renderVars, callVars>>
    /\ UNCHANGED <<stage, objects, clip_interval, exposure, max_bouces,
                   samples_per_pixel, pixel_samples_scale, sp>>

\* getRayHit: the recursive call has returned.
RayHitCombine(d) ==
    /\ d \in 1..(Len(frames) - 1)
    /\ frames[d].pc = "wait"
    /\ frames[d + 1].pc = "ret"
    /\ frames' = [frames EXCEPT ![d] = Combine(frames[d], frames[d + 1].pixel)]
    /\ UNCHANGED <<renderVars, callVars>>
    /\ UNCHANGED <<stage, objects, clip_interval, exposure, max_bouces,
                   samples_per_pixel, pixel_samples_scale, sp>>

\* getRayHit: the loop is over and nothing was hit.
RayHitMiss(d) ==
    /\ d \in 1..Len(frames)
    /\ frames[d].pc = "loop"
    /\ frames[d].k > Len(objects)
    /\ ~frames[d].hit_anything
    /\ frames' = [frames EXCEPT ![d] = Background(frames[d])]
    /\ UNCHANGED <<renderVars, callVars>>
    /\ UNCHANGED <<stage, objects, clip_interval, exposure, max_bouces,
                   samples_per_pixel, pixel_samples_scale, sp>>

\* samplePixel: getRayHit has returned, pixel2 is added to pixel1.
SampleAccumulate ==
    /\ stage = "sampling"
    /\ sp.pc = "call"
    /\ frames[1].pc = "ret"
    /\ sp' = [sp EXCEPT !.pc = "loop", !.sample = sp.sample + 1,
                        !.pixel1 = Accumulate(sp.pixel1, frames[1].pixel)]
    /\ UNCHANGED <<renderVars, callVars>>
    /\ UNCHANGED <<stage, objects, clip_interval, exposure, max_bouces,
                   samples_per_pixel, pixel_samples_scale, frames>>

\* samplePixel: the loop is over, the caller's pixel is written.
SampleFinish ==
    /\ stage = "sampling"
    /\ sp.pc = "loop"
    /\ sp.sample >= samples_per_pixel
    /\ sp' = [sp EXCEPT !.pc = "done", !.pixel = Averaged(sp.pixel1), !.set = TRUE]
    /\ UNCHANGED <<renderVars, callVars>>
    /\ UNCHANGED <<stage, objects, clip_interval, exposure, max_bouces,
                   samples_per_pixel, pixel_samples_scale, frames>>

\* ------------------------------------------------------------ Scene::Render

\* The workers Render starts: hardware_concurrency(), 4 when that is 0.
ThreadCount == IF hardware_concurrency = 0 THEN 4 ELSE hardware_concurrency

\* int rows_per_thread = canvas_height / thread_count;
RowsPerThread == canvas_height \div ThreadCount

\* int start_row = t * rows_per_thread;  (t counts from 0)
StartRow(t) == t * RowsPerThread

\* A variant of EndRow without the last worker's remainder.
EndRowNoRemainder(t) == StartRow(t) + RowsPerThread

\* int end_row = (t == thread_count - 1) ? canvas_height : start_row + rows_per_thread;
EndRow(t) ==
    IF t = ThreadCount - 1 THEN canvas_height ELSE StartRow(t) + RowsPerThread

\* int index = j * canvas_width + i;
Index(i, j) == j * canvas_width + i

\* The n-th value random_double() returns after the program's start: a
\* fixed sequence over [0, 1) in which neighbouring values differ, standing
\* for the one std::rand() generates from its default seed (main never calls
\* srand); the value depends on the generator's state n alone.
RandomDouble(n) == ((7 * n + 3) % 10) * (Scale \div 10)

\* The value samplePixel(i, j, pixel) leaves in `pixel` for the empty scene:
\* every ray misses, so the value is decided by the ray getRay(i, j) builds,
\* that is by the pixel's coordinates and the random_double values
\* sampleSquare returned for it.
PixelOf(i, j, offsets) == <<"pixel", i, j, offsets>>

\* A worker thread of Render: the activation of render_rows(start_row, end_row).
\* sample and draw count the samples of the pixel and the two random_double
\* calls of sampleSquare; n is the generator state rand() has read.
Worker(start_row, end_row) ==
    [pc |-> "row", start_row |-> start_row, end_row |-> end_row,
     j |-> start_row, i |-> 0, sample |-> 0, draw |-> 0, n |-> 0,
     completed |-> 0]

\* A variant of Joinable that does not wait for the thread.
JoinableRunning(w) == w \in 1..Len(threads)

\* t.join() may return: the thread has left render_rows.
Joinable(w) == threads[w].pc = "done"

\* if (completed % 10 == 0 || completed == canvas_height)
ShowsProgress(completed) == completed % 10 = 0 \/ completed = canvas_height

\* console_mutex when no thread has locked it.
Unlocked == [owner |-> "none", thread |-> 0]

\* console_mutex locked by the thread that called Render.
HeldByMain == [owner |-> "main", thread |-> 0]

\* console_mutex locked by worker w.
HeldBy(w) == [owner |-> "worker", thread |-> w]

\* A variant of Lockable that lets the constructor return at once.
LockableAlways(m) == TRUE

\* std::lock_guard<std::mutex> lock(console_mutex): the constructor returns
\* when the mutex is not locked.
Lockable(m) == m = Unlocked

\* The four assign calls, the thread count and lines_done(0).
RenderBegin ==
    /\ render.pc = "idle"
    /\ color_map'  = [idx \in 0..(canvas_height * canvas_width - 1) |-> Vec0]
    /\ albedo_map' = [idx \in 0..(canvas_height * canvas_width - 1) |-> Vec0]
    /\ normal_map' = [idx \in 0..(canvas_height * canvas_width - 1) |-> Vec0]
    /\ depth_map'  = [idx \in 0..(canvas_height * canvas_width - 1) |-> 0]
    /\ lines_done' = 0
    /\ render' = [pc |-> "spawn", t |-> 0]
    /\ UNCHANGED <<traceVars, callVars>>
    /\ UNCHANGED <<canvas_height, canvas_width, hardware_concurrency, threads,
                   console_mutex, clog, rand_next, writes, accesses, drawn>>

\* One iteration of the loop that starts the workers.
Spawn ==
    /\ render.pc = "spawn"
    /\ render.t < ThreadCount
    /\ threads' = Append(threads, Worker(StartRow(render.t), EndRow(render.t)))
    /\ render' = IF render.t + 1 < ThreadCount
                 THEN [render EXCEPT !.t = render.t + 1]
                 ELSE [pc |-> "join", t |-> 1]
    /\ UNCHANGED <<traceVars, callVars>>
    /\ UNCHANGED <<canvas_height, canvas_width, hardware_concurrency, color_map,
                   albedo_map, normal_map, depth_map, lines_done, console_mutex,
                   clog, rand_next, writes, accesses, drawn>>

\* One iteration of `for (auto& t : threads) t.join();`.
Join ==
    /\ render.pc = "join"
    /\ Joinable(render.t)
    /\ render' = IF render.t < Len(threads)
                 THEN [render EXCEPT !.t = render.t + 1]
                 ELSE [pc |-> "log", t |-> 0]
    /\ UNCHANGED <<traceVars, callVars>>
    /\ UNCHANGED <<canvas_height, canvas_width, hardware_concurrency, color_map,
                   albedo_map, normal_map, depth_map, threads, lines_done,
                   console_mutex, clog, rand_next, writes, accesses, drawn>>

\* The closing block: std::lock_guard lock(console_mutex);
FinalLock ==
    /\ render.pc = "log"
    /\ Lockable(console_mutex)
    /\ console_mutex' = HeldByMain
    /\ render' = [render EXCEPT !.pc = "logging"]
    /\ UNCHANGED <<traceVars, callVars>>
    /\ UNCHANGED <<canvas_height, canvas_width, hardware_concurrency, color_map,
                   albedo_map, normal_map, depth_map, threads, lines_done,
                   clog, rand_next, writes, accesses, drawn>>

\* The closing block: the "Done." line, the guard's release, the return.
FinalPrint ==
    /\ render.pc = "logging"
    /\ clog' = Append(clog, [by |-> "main", completed |-> canvas_height])
    /\ console_mutex' = Unlocked
    /\ render' = [render EXCEPT !.pc = "returned"]
    /\ UNCHANGED <<traceVars, callVars>>
    /\ UNCHANGED <<canvas_height, canvas_width, hardware_concurrency, color_map,
                   albedo_map, normal_map, depth_map, threads, lines_done,
                   rand_next, writes, accesses, drawn>>

\* A variant of NextPixel that leaves the row after its first pixel.
NextPixelFirstOnly(wk, i) ==
    IF i < 1
    THEN [wk EXCEPT !.i = i, !.sample = 0, !.draw = 0, !.pc = "rand_read"]
    ELSE [wk EXCEPT !.i = i, !.pc = "count"]

\* Worker w after `i` has been advanced past a stored pixel, or at the start
\* of a row: the next pixel's first draw, or the row's fetch_add.
NextPixel(wk, i) ==
    IF i < canvas_width
    THEN [wk EXCEPT !.i = i, !.sample = 0, !.draw = 0, !.pc = "rand_read"]
    ELSE [wk EXCEPT !.i = i, !.pc = "count"]

\* render_rows: the head of `for (int j = start_row; j < end_row; j++)`.
WorkerRow(w) ==
    /\ w \in 1..Len(threads)
    /\ threads[w].pc = "row"
    /\ threads' = [threads EXCEPT ![w] =
                     IF threads[w].j < threads[w].end_row
                     THEN NextPixel(threads[w], 0)
                     ELSE [threads[w] EXCEPT !.pc = "done"]]
    /\ UNCHANGED <<traceVars, callVars>>
    /\ UNCHANGED <<canvas_height, canvas_width, hardware_concurrency, color_map,
                   albedo_map, normal_map, depth_map, render, lines_done,
                   console_mutex, clog, rand_next, writes, accesses, drawn>>

\* samplePixel -> getRay -> sampleSquare -> random_double -> std::rand():
\* the generator's state is read.  With seeded = FALSE the model does not
\* follow the value of that state.
WorkerRandRead(w, seeded) ==
    /\ w \in 1..Len(threads)
    /\ threads[w].pc = "rand_read"
    /\ threads' = [threads EXCEPT ![w].pc = "rand_write",
                                  ![w].n = IF seeded THEN rand_next ELSE 0]
    /\ accesses' = [accesses EXCEPT !.rand.r = @ \cup {w}]
    /\ UNCHANGED <<traceVars, callVars>>
    /\ UNCHANGED <<canvas_height, canvas_width, hardware_concurrency, color_map,
                   albedo_map, normal_map, depth_map, render, lines_done,
                   console_mutex, clog, rand_next, writes, drawn>>

\* std::rand(): the advanced state is written back and the value returned.
\* After the second draw of a sample the ray is traced, which reads the scene
\* and the camera (the scene of Render is empty here and defocus_angle is 0:
\* getRayHit and getRay draw no further numbers).
WorkerRandWrite(w, seeded) ==
    /\ w \in 1..Len(threads)
    /\ threads[w].pc = "rand_write"
    /\ LET wk == threads[w]
       IN  /\ threads' = [threads EXCEPT ![w] =
                  IF wk.draw = 0 THEN [wk EXCEPT !.draw = 1, !.pc = "rand_read"]
                  ELSE IF wk.sample + 1 < samples_per_pixel
                  THEN [wk EXCEPT !.sample = wk.sample + 1, !.draw = 0,
                                  !.pc = "rand_read"]
                  ELSE [wk EXCEPT !.pc = "store"]]
           /\ rand_next' = IF seeded THEN wk.n + 1 ELSE rand_next
           /\ drawn' = IF seeded
                       THEN [drawn EXCEPT ![Index(wk.i, wk.j)] =
                               Append(@, RandomDouble(wk.n))]
                       ELSE drawn
           /\ accesses' = [accesses EXCEPT
                             !.rand.w = @ \cup {w},
                             !.scene.r = IF wk.draw = 1 THEN @ \cup {w} ELSE @]
    /\ UNCHANGED <<traceVars, callVars>>
    /\ UNCHANGED <<canvas_height, canvas_width, hardware_concurrency, color_map,
                   albedo_map, normal_map, depth_map, render, lines_done,
                   console_mutex, clog, writes>>

\* render_rows: the four stores of the pixel, then i++.
WorkerStore(w) ==
    /\ w \in 1..Len(threads)
    /\ threads[w].pc = "store"
    /\ LET wk    == threads[w]
           index == Index(wk.i, wk.j)
       IN  /\ color_map'  = [color_map  EXCEPT ![index] = PixelOf(wk.i, wk.j, drawn[index])]
           /\ albedo_map' = [albedo_map EXCEPT ![index] = PixelOf(wk.i, wk.j, drawn[index])]
           /\ normal_map' = [normal_map EXCEPT ![index] = PixelOf(wk.i, wk.j, drawn[index])]
           /\ depth_map'  = [depth_map  EXCEPT ![index] = PixelOf(wk.i, wk.j, drawn[index])]
           /\ writes' = [writes EXCEPT ![index] =
                           [color |-> @.color + 1, albedo |-> @.albedo + 1,
                            normal |-> @.normal + 1, depth |-> @.depth + 1,
                            by |-> @.by \cup {w}]]
           /\ threads' = [threads EXCEPT ![w] = NextPixel(wk, wk.i + 1)]
    /\ UNCHANGED <<traceVars, callVars>>
    /\ UNCHANGED <<canvas_height, canvas_width, hardware_concurrency, render,
                   lines_done, console_mutex, clog, rand_next, accesses, drawn>>

\* render_rows: int completed = lines_done.fetch_add(1) + 1; and the test
\* that decides whether the progress line is shown.
WorkerCount(w) ==
    /\ w \in 1..Len(threads)
    /\ threads[w].pc = "count"
    /\ lines_done' = lines_done + 1
    /\ threads' = [threads EXCEPT ![w] =
                     IF ShowsProgress(lines_done + 1)
                     THEN [@ EXCEPT !.completed = lines_done + 1, !.pc = "lock"]
                     ELSE [@ EXCEPT !.completed = lines_done + 1,
                                    !.j = @ + 1, !.pc = "row"]]
    /\ UNCHANGED <<traceVars, callVars>>
    /\ UNCHANGED <<canvas_height, canvas_width, hardware_concurrency, color_map,
                   albedo_map, normal_map, depth_map, render, console_mutex,
                   clog, rand_next, writes, accesses, drawn>>

\* render_rows: std::lock_guard<std::mutex> lock(console_mutex);
WorkerLock(w) ==
    /\ w \in 1..Len(threads)
    /\ threads[w].pc = "lock"
    /\ Lockable(console_mutex)
    /\ console_mutex' = HeldBy(w)
    /\ threads' = [threads EXCEPT ![w].pc = "print"]
    /\ UNCHANGED <<traceVars, callVars>>
    /\ UNCHANGED <<canvas_height, canvas_width, hardware_concurrency, color_map,
                   albedo_map, normal_map, depth_map, render, lines_done,
                   clog, rand_next, writes, accesses, drawn>>

\* render_rows: the progress line, the guard's release at the end of the
\* block, j++.
WorkerPrint(w) ==
    /\ w \in 1..Len(threads)
    /\ threads[w].pc = "print"
    /\ clog' = Append(clog, [by |-> w, completed |-> threads[w].completed])
    /\ console_mutex' = Unlocked
    /\ threads' = [threads EXCEPT ![w].j = @ + 1, ![w].pc = "row"]
    /\ UNCHANGED <<traceVars, callVars>>
    /\ UNCHANGED <<canvas_height, canvas_width, hardware_concurrency, color_map,
                   albedo_map, normal_map, depth_map, render, lines_done,
                   rand_next, writes, accesses, drawn>>

\* ------------------------------------------------------- the specifications

\* ------------------------------------------------------------- Scene::Write

\* Pixels of the images Write is followed on (canvas_height = 1).
MaxPixels == 2

\* One unit (1.0) of the numbers of the depth overload: four decimal digits,
\* so that its epsilon is a number of the model.
DepthScale == 10 * Scale

\* const double max_depth_valid = 1e5;
max_depth_valid == 100000 * DepthScale

\* const double epsilon = 1e-4;
epsilon == DepthScale \div 10000

\* The first loop of the depth overload, for one element d of d_buffer (d as
\* the caller passes it; the result in units of DepthScale).
ClampDepth(d) ==
    IF ~isfinite(d) \/ d > 100000 * Scale THEN max_depth_valid
    ELSE IF (DepthScale \div Scale) * d < epsilon THEN epsilon
    ELSE (DepthScale \div Scale) * d

RECURSIVE Log2Floor(_, _, _)
\* The largest k >= k0 with p0 * 2^(k - k0) <= x, given p0 = 2^k0 <= x, as
\* the pair <<k, 2^k>>.
Log2Floor(x, k0, p0) ==
    IF 2 * p0 > x THEN <<k0, p0>> ELSE Log2Floor(x, k0 + 1, 2 * p0)

\* std::log(x) for x > 0 in units of DepthScale, up to a constant term and a
\* constant factor (both cancel in `scaled`): the binary logarithm with ten
\* fractional bits, linear between powers of two.
log(x) ==
    LET kp == Log2Floor(x, 0, 1)
        k  == kp[1]
        p  == kp[2]
    IN  k * 1024 + (IF p >= 1024 THEN (x - p) \div (p \div 1024)
                                 ELSE (x - p) * (1024 \div p))

\* The smallest and the largest element of a buffer (std::minmax_element).
MinElement(buf) == CHOOSE x \in {buf[i] : i \in DOMAIN buf} :
                       \A y \in {buf[i] : i \in DOMAIN buf} : x <= y

MaxElement(buf) == CHOOSE x \in {buf[i] : i \in DOMAIN buf} :
                       \A y \in {buf[i] : i \in DOMAIN buf} : x >= y

\* double scaled = (log_d - log_min) / (log_max - log_min); for the element d
\* of the clamped buffer buf.
Scaled(buf, d) ==
    LET log_d   == log(IF d > epsilon THEN d ELSE epsilon)
        log_min == log(MinElement(buf) + epsilon)
        log_max == log(MaxElement(buf) + epsilon)
    IN  FDivIEEE(log_d - log_min, log_max - log_min)

\* Interval col_range(0.0, 0.999);
col_range == Interval(0, Scale - (Scale \div 1000))

\* static_cast<unsigned char>(256 * col_range.clamp(x))
Byte(x) == (256 * clamp(col_range, x)) \div Scale

\* A variant of tone that decreases: 1 / (1 + x).
toneInverted(x) == FDivIEEE(Scale, Scale + x)

\* auto tone = [](double x) { return x / (1.0 + x); };
tone(x) == FDivIEEE(x, Scale + x)

\* The byte Write(color) stores for the channel value x.
encode(x) == Byte(linear_to_gamma(tone(x)))

\* A variant of PassByValue in which the callee's writes reach the caller.
PassByReference(member, local) == local

\* A member buffer after a callee that took it by value (the getter's copy,
\* the by-value parameter) has assigned `local` to its parameter.
PassByValue(member, local) == member

\* The indices of the image.
Pixels == 0..(canvas_height * canvas_width - 1)

\* The buffers the depth overload is called with besides get_depth_map():
\* every buffer over these elements (a hit, a farther hit, the miss sentinel,
\* zero, a negative number, NaN).
DepthValues == { 3 * (Scale \div 2), 4 * Scale, infinity, 0, -Scale, NaN }

\* The buffers the color overload is called with besides the getters' values:
\* every buffer over these colors.
ColorValues ==
    { <<0, 1, 10>>, <<Scale \div 2, Scale, 2 * Scale>>,
      <<999, 1001, 3 * Scale>>, <<5 * Scale, 500 * Scale, 1000 * Scale>>,
      <<-Scale, -(Scale \div 2), -2 * Scale>> }

\* Write is not running.  A call after another call is followed for the
\* scene's own buffers only (member: the argument is one of them).
WriteCallable(member) ==
    write.pc = "idle" \/ (member /\ write.pc = "returned")

\* The four buffers of the scene.
Maps == <<color_map, albedo_map, normal_map, depth_map>>

\* Write(output_path, d_buffer) up to the end of the pixel loop.  own: the
\* call is Write(path, get_depth_map()).
WriteDepth(d_buffer, own) ==
    /\ WriteCallable(own)
    /\ own => d_buffer = depth_map
    /\ LET clamped == [idx \in Pixels |-> ClampDepth(d_buffer[idx])]
           scaled  == [idx \in Pixels |-> Scaled(clamped, clamped[idx])]
           gamma   == [idx \in Pixels |-> linear_to_gamma(scaled[idx])]
       IN  /\ write' = [pc |-> "mkdir", overload |-> "depth", before |-> Maps,
                        own |-> own, arg |-> d_buffer, d_buffer |-> clamped,
                        scaled |-> scaled, gamma |-> gamma,
                        write_buffer |->
                            [idx \in Pixels |->
                                <<Byte(gamma[idx]), Byte(gamma[idx]), Byte(gamma[idx])>>],
                        out |-> "none"]
           /\ depth_map' = IF own THEN PassByValue(depth_map, clamped)
                           ELSE depth_map
    /\ UNCHANGED <<traceVars, hit_call>>
    /\ UNCHANGED <<canvas_height, canvas_width, hardware_concurrency, color_map,
                   albedo_map, normal_map, render, threads, lines_done,
                   console_mutex, clog, rand_next, writes, accesses, drawn>>

\* Write(output_path, color_buffer) up to the end of the pixel loop.
WriteColor(color_buffer) ==
    /\ WriteCallable(color_buffer \in {color_map, albedo_map, normal_map})
    /\ LET toned == [idx \in Pixels |->
                       [c \in 1..3 |-> tone(color_buffer[idx][c])]]
           gamma == [idx \in Pixels |->
                       [c \in 1..3 |-> linear_to_gamma(toned[idx][c])]]
       IN  write' = [pc |-> "mkdir", overload |-> "color", before |-> Maps,
                     own |-> FALSE, arg |-> color_buffer, d_buffer |-> color_buffer,
                     scaled |-> toned, gamma |-> gamma,
                     write_buffer |->
                         [idx \in Pixels |-> [c \in 1..3 |-> Byte(gamma[idx][c])]],
                     out |-> "none"]
    /\ UNCHANGED <<traceVars, renderVars, hit_call>>

\* fs::create_directories(output_path.parent_path()): it returns, or throws
\* std::filesystem::filesystem_error, which Write does not catch.
CreateDirectories(ok) ==
    /\ write.pc = "mkdir"
    /\ write' = [write EXCEPT !.pc = IF ok THEN "encode" ELSE "thrown"]
    /\ UNCHANGED <<traceVars, renderVars, hit_call>>

\* stbi_write_png(...) returns non-zero or zero; the message, delete[], return.
Encode(ok) ==
    /\ write.pc = "encode"
    /\ write' = [write EXCEPT !.pc = "returned",
                              !.out = IF ok THEN "cout: Saved"
                                      ELSE "cerr: Failed to write PNG"]
    /\ UNCHANGED <<traceVars, renderVars, hit_call>>

\* Neither Sphere::RayHit (directly) nor Write has been called.
NoCalls == hit_call = [pc |-> "idle"] /\ write = [pc |-> "idle"]

\* Render has not been called.
RenderIdle ==
    /\ color_map = <<>> /\ albedo_map = <<>>
    /\ normal_map = <<>> /\ depth_map = <<>>
    /\ render = [pc |-> "idle", t |-> 0]
    /\ threads = <<>>
    /\ lines_done = 0
    /\ console_mutex = Unlocked
    /\ clog = <<>>
    /\ rand_next = 0
    /\ writes = [idx \in 0..(canvas_height * canvas_width - 1) |->
                   [color |-> 0, albedo |-> 0, normal |-> 0, depth |-> 0, by |-> {}]]
    /\ accesses = [rand |-> [r |-> {}, w |-> {}], scene |-> [r |-> {}, w |-> {}]]
    /\ drawn = [idx \in 0..(canvas_height * canvas_width - 1) |-> <<>>]

\* The scene as constructed: Scene() with the members' default initializers,
\* and the public fields the set-up code assigns before Init().
InitTrace ==
    /\ stage = "config"
    /\ objects = <<>>
    /\ clip_interval = Interval(Scale \div 1000, infinity)
    /\ exposure \in Exposures
    /\ max_bouces \in 0..MaxBounces
    /\ samples_per_pixel \in 1..MaxSamples
    /\ pixel_samples_scale = 0
    /\ sp = [pc |-> "idle", sample |-> 0, pixel1 |-> PixelInfo(0),
             pixel |-> PixelInfo(0), set |-> FALSE]
    /\ frames = <<>>
    /\ canvas_height = 1 /\ canvas_width = 1 /\ hardware_concurrency = 1
    /\ RenderIdle
    /\ NoCalls

NextTrace ==
    \/ SceneInit
    \/ \E obj \in SphereSet : AddObject(obj)
    \/ SamplePixelEnter
    \/ \E r \in CameraRays, g \in Indeterminate : SampleCall(r, g)
    \/ \E d \in 1..(MaxBounces + 2) : RayHitEnter(d)
    \/ \E d \in 1..(MaxBounces + 2) : RayHitLoop(d)
    \/ \E d \in 1..(MaxBounces + 2), ruv \in UnitVectors, xi \in Draws,
          g \in Indeterminate : RayHitShade(d, ruv, xi, g)
    \/ \E d \in 1..(MaxBounces + 2) : RayHitCombine(d)
    \/ \E d \in 1..(MaxBounces + 2) : RayHitMiss(d)
    \/ SampleAccumulate
    \/ SampleFinish

\* The integrator: scene set-up, then one call of samplePixel.
SpecTrace == InitTrace /\ [][NextTrace]_vars

\* An empty scene with the default members but one sample per pixel, Init()
\* called, and an image of
\* canvas_width x canvas_height on a machine with hardware_concurrency cores.
InitRender ==
    /\ stage = "build"
    /\ objects = <<>>
    /\ clip_interval = Interval(Scale \div 1000, infinity)
    /\ exposure = Scale
    /\ max_bouces = 10
    /\ samples_per_pixel = 1
    /\ pixel_samples_scale = FDiv(Scale, samples_per_pixel * Scale)
    /\ sp = [pc |-> "idle", sample |-> 0, pixel1 |-> PixelInfo(0),
             pixel |-> PixelInfo(0), set |-> FALSE]
    /\ frames = <<>>
    /\ canvas_height \in 1..MaxHeight
    /\ canvas_width \in 1..MaxWidth
    /\ hardware_concurrency \in 0..MaxThreads
    /\ RenderIdle
    /\ NoCalls

\* The same, for the images small enough to follow the generator's state.
InitSeeded == InitRender /\ canvas_height <= SeededHeight

NextRender ==
    \/ RenderBegin
    \/ Spawn
    \/ Join
    \/ FinalLock
    \/ FinalPrint
    \/ \E w \in 1..MaxWorkers : WorkerRow(w)
    \/ \E w \in 1..MaxWorkers : WorkerRandRead(w, FALSE)
    \/ \E w \in 1..MaxWorkers : WorkerRandWrite(w, FALSE)
    \/ \E w \in 1..MaxWorkers : WorkerStore(w)
    \/ \E w \in 1..MaxWorkers : WorkerCount(w)
    \/ \E w \in 1..MaxWorkers : WorkerLock(w)
    \/ \E w \in 1..MaxWorkers : WorkerPrint(w)

NextSeeded ==
    \/ RenderBegin
    \/ Spawn
    \/ Join
    \/ FinalLock
    \/ FinalPrint
    \/ \E w \in 1..MaxWorkers : WorkerRow(w)
    \/ \E w \in 1..MaxWorkers : WorkerRandRead(w, TRUE)
    \/ \E w \in 1..MaxWorkers : WorkerRandWrite(w, TRUE)
    \/ \E w \in 1..MaxWorkers : WorkerStore(w)
    \/ \E w \in 1..MaxWorkers : WorkerCount(w)
    \/ \E w \in 1..MaxWorkers : WorkerLock(w)
    \/ \E w \in 1..MaxWorkers : WorkerPrint(w)

\* One call of Render, every interleaving of its threads; the values the
\* random generator returns are not followed.
SpecRender == InitRender /\ [][NextRender]_vars

\* One call of Render, every interleaving of its threads, the random
\* generator's state and the numbers each pixel draws included.
SpecSeeded == InitSeeded /\ [][NextSeeded]_vars

NextBlack ==
    \/ SceneInit
    \/ \E obj \in BlackSpheres : AddObject(obj)
    \/ SamplePixelEnter
    \/ \E r \in BlackRays, g \in Indeterminate : SampleCall(r, g)
    \/ \E d \in 1..(MaxBounces + 2) : RayHitEnter(d)
    \/ \E d \in 1..(MaxBounces + 2) : RayHitLoop(d)
    \/ \E d \in 1..(MaxBounces + 2), ruv \in UnitVectors, xi \in Draws,
          g \in Indeterminate : RayHitShade(d, ruv, xi, g)
    \/ \E d \in 1..(MaxBounces + 2) : RayHitCombine(d)
    \/ \E d \in 1..(MaxBounces + 2) : RayHitMiss(d)
    \/ SampleAccumulate
    \/ SampleFinish

\* The integrator in scenes built from black Lambertian spheres only.
SpecBlack == InitTrace /\ [][NextBlack]_vars

\* Render has returned for an image of one row: an empty scene (every depth
\* the miss sentinel) or a scene hit by the first pixel's rays only.
InitWrite ==
    /\ stage = "build"
    /\ objects = <<>>
    /\ clip_interval = Interval(Scale \div 1000, infinity)
    /\ exposure = Scale
    /\ max_bouces = 10
    /\ samples_per_pixel = 1
    /\ pixel_samples_scale = Scale
    /\ sp = [pc |-> "idle", sample |-> 0, pixel1 |-> PixelInfo(0),
             pixel |-> PixelInfo(0), set |-> FALSE]
    /\ frames = <<>>
    /\ canvas_height = 1
    /\ canvas_width \in 1..MaxPixels
    /\ hardware_concurrency = 1
    /\ \E hit \in BOOLEAN :
          /\ color_map = [idx \in Pixels |->
                            IF hit /\ idx = 0 THEN <<Scale \div 2, Scale, 2 * Scale>>
                            ELSE <<Scale, Scale, Scale>>]
          /\ albedo_map = [idx \in Pixels |->
                            IF hit /\ idx = 0 THEN <<Scale \div 2, Scale \div 2, Scale \div 2>>
                            ELSE Vec0]
          /\ normal_map = [idx \in Pixels |->
                            IF hit /\ idx = 0 THEN <<0, 0, Scale>> ELSE Vec0]
          /\ depth_map = [idx \in Pixels |->
                            IF hit /\ idx = 0 THEN 3 * (Scale \div 2) ELSE infinity]
    /\ render = [pc |-> "returned", t |-> 0]
    /\ threads = <<>>
    /\ lines_done = canvas_height
    /\ console_mutex = Unlocked
    /\ clog = <<>>
    /\ rand_next = 0
    /\ writes = [idx \in Pixels |->
                   [color |-> 1, albedo |-> 1, normal |-> 1, depth |-> 1, by |-> {1}]]
    /\ accesses = [rand |-> [r |-> {}, w |-> {}], scene |-> [r |-> {}, w |-> {}]]
    /\ drawn = [idx \in Pixels |-> <<>>]
    /\ NoCalls

NextWrite ==
    \/ \E d_buffer \in [Pixels -> DepthValues] : WriteDepth(d_buffer, FALSE)
    \/ WriteDepth(depth_map, TRUE)
    \/ \E color_buffer \in [Pixels -> ColorValues] \cup
                           {color_map, albedo_map, normal_map} :
          WriteColor(color_buffer)
    \/ \E ok \in BOOLEAN : CreateDirectories(ok)
    \/ \E ok \in BOOLEAN : Encode(ok)

\* Calls of both overloads of Write after a Render.
SpecWrite == InitWrite /\ [][NextWrite]_vars

\* obj.RayHit(r, hit, ray_t) called on its own: `hit` is written only when
\* the call returns true.
SphereRayHitCall(s, r, ray_t) ==
    /\ LET res == SphereRayHit(s, r, ray_t)
       IN  hit_call' = [pc |-> "done", s |-> s, r |-> r, ray_t |-> ray_t,
                        hit |-> res.hit,
                        rec |-> IF res.hit THEN res.rec
                                ELSE IF hit_call.pc = "idle" THEN NoRec
                                ELSE hit_call.rec]
    /\ UNCHANGED <<traceVars, renderVars, write>>

NextSphere ==
    \E s \in SphereSet, r \in HitRays, ray_t \in HitIntervals :
        SphereRayHitCall(s, r, ray_t)

\* A scene as constructed; Sphere::RayHit reads none of its members.
InitSphere ==
    InitTrace /\ max_bouces = 0 /\ samples_per_pixel = 1

\* Calls of Sphere::RayHit with every sphere, ray and interval of the model.
SpecSphere == InitSphere /\ [][NextSphere]_vars

\* -------------------------------------------------- the claims, C1 to C4

\* The rows render_rows(start_row, end_row) of worker w visits.
Rows(w) == threads[w].start_row .. (threads[w].end_row - 1)

\* The buffer indices of the image.
Indices == 0..(canvas_height * canvas_width - 1)

\* Every worker of this Render has been started.
AllSpawned == render.pc \in {"join", "log", "logging", "returned"}

\* C1: the row ranges handed to the workers are pairwise disjoint and, once
\* all are started, their union is exactly [0, canvas_height); no buffer index
\* is ever written by two workers or twice in one buffer, and when Render
\* returns every index has been written exactly once in each of the four
\* buffers, by exactly one worker.
C1_RowPartition ==
    /\ \A w1, w2 \in 1..Len(threads) :
          w1 # w2 => Rows(w1) \cap Rows(w2) = {}
    /\ AllSpawned =>
          /\ Len(threads) = ThreadCount
          /\ UNION {Rows(w) : w \in 1..Len(threads)} = 0..(canvas_height - 1)
    /\ \A idx \in Indices :
          /\ writes[idx].color <= 1 /\ writes[idx].albedo <= 1
          /\ writes[idx].normal <= 1 /\ writes[idx].depth <= 1
          /\ Cardinality(writes[idx].by) <= 1
    /\ render.pc = "returned" =>
          \A idx \in Indices :
             /\ writes[idx].color = 1 /\ writes[idx].albedo = 1
             /\ writes[idx].normal = 1 /\ writes[idx].depth = 1
             /\ Cardinality(writes[idx].by) = 1

\* C1 witnesses: a finished render whose height is not a multiple of the
\* worker count, with more than one row per worker and a remainder for the
\* last one.
C1_Witness ==
    /\ render.pc = "returned"
    /\ RowsPerThread > 0
    /\ canvas_height % ThreadCount # 0
    /\ canvas_width > 1

\* C2: no state is written by one worker and read or written by another
\* without synchronization: the scene and the camera are only read, the
\* random-number source is not shared between workers, and a buffer slot is
\* written by one worker only.
C2_NoSharedMutableState ==
    /\ accesses.scene.w = {}
    /\ \A w1 \in accesses.rand.w :
          \A w2 \in accesses.rand.r \cup accesses.rand.w : w1 = w2
    /\ \A idx \in Indices : Cardinality(writes[idx].by) <= 1

\* The numbers sampleSquare returns for the pixel at buffer index idx when
\* the workers run one after the other in the order they were started.
SerialDraws(idx) ==
    [k \in 1..(2 * samples_per_pixel) |->
        RandomDouble(2 * samples_per_pixel * idx + k - 1)]

\* C3: for one seed, scene and configuration the buffers Render returns are
\* the same in every interleaving of the workers: each pixel holds the value
\* it holds when the workers run one after the other.
C3_Deterministic ==
    render.pc = "returned" =>
        \A j \in 0..(canvas_height - 1) : \A i \in 0..(canvas_width - 1) :
            /\ color_map[Index(i, j)]  = PixelOf(i, j, SerialDraws(Index(i, j)))
            /\ albedo_map[Index(i, j)] = PixelOf(i, j, SerialDraws(Index(i, j)))
            /\ normal_map[Index(i, j)] = PixelOf(i, j, SerialDraws(Index(i, j)))
            /\ depth_map[Index(i, j)]  = PixelOf(i, j, SerialDraws(Index(i, j)))

\* Every pixel of the four buffers holds a value a worker stored.
BuffersFilled ==
    \A j \in 0..(canvas_height - 1) : \A i \in 0..(canvas_width - 1) :
        /\ color_map[Index(i, j)]  = PixelOf(i, j, drawn[Index(i, j)])
        /\ albedo_map[Index(i, j)] = PixelOf(i, j, drawn[Index(i, j)])
        /\ normal_map[Index(i, j)] = PixelOf(i, j, drawn[Index(i, j)])
        /\ depth_map[Index(i, j)]  = PixelOf(i, j, drawn[Index(i, j)])

\* C4: when Render has returned, every worker it started has left
\* render_rows, every pixel of the four buffers has been stored, and from
\* then on no buffer changes.
C4_JoinBeforeReturn ==
    /\ [](render.pc = "returned" =>
            /\ Len(threads) = ThreadCount
            /\ \A w \in 1..Len(threads) : threads[w].pc = "done"
            /\ BuffersFilled)
    /\ [][render.pc = "returned" =>
            /\ color_map' = color_map /\ albedo_map' = albedo_map
            /\ normal_map' = normal_map /\ depth_map' = depth_map]_vars

\* C4 witness: Render has returned after two or more workers stored pixels.
C4_Witness ==
    /\ render.pc = "returned"
    /\ Cardinality(UNION {writes[idx].by : idx \in Indices}) >= 2

\* ------------------------------------------------- the claims, C5 to C10

\* The activations of getRayHit that have returned.
Returned == { d \in 1..Len(frames) : frames[d].pc = "ret" }

\* The roots of |P(t) - center|^2 = r^2 for ray r and sphere s.
RootsOf(s, r) ==
    LET oc   == VSub(s.center, r.orig)
        a    == length_squared(r.dir)
        h    == dot(r.dir, oc)
        c    == dot(oc, oc) - FMul(s.radius, s.radius)
        disc == FMul(h, h) - FMul(a, c)
        sqrtd == FSqrt(disc)
    IN  IF disc < 0 \/ a = 0 THEN {}
        ELSE { FDiv(h - sqrtd, a), FDiv(h + sqrtd, a) }

\* The roots of objects[i] strictly inside the clip interval.
ClipRoots(i, r) ==
    { t \in RootsOf(objects[i], r) : clip_interval.min < t /\ t < clip_interval.max }

\* The objects among the first n that ray r hits inside the clip interval.
HitObjects(n, r) == { i \in 1..n : ClipRoots(i, r) # {} }

SetMin(S) == CHOOSE x \in S : \A y \in S : x <= y

\* The smallest hit parameter of r over the first n objects (n hits something).
NearestT(n, r) == SetMin(UNION { ClipRoots(i, r) : i \in 1..n })

\* C5: a ray with a positive bounce budget that hits an Emissive surface of
\* color c and intensity k is given the color k * c.
C5_EmissiveColor ==
    \A d \in Returned :
        LET f == frames[d]
        IN  (f.bounce_depth > 0 /\ f.hit_anything /\ f.rec.mat.kind = "Emission")
            => f.pixel.color = VScale(f.rec.mat.intensity, f.rec.mat.emit_color)

\* C6: on a hit with a positive budget the color is emission + attenuation *
\* (the color of the scattered ray traced with one bounce less) when the
\* material scatters and the emission alone when it does not, the emission
\* being what the material emits, (0,0,0) when it does not emit.
C6_Combination ==
    \A d \in Returned :
        LET f        == frames[d]
            emission == IF f.out.emit THEN f.out.attenuation ELSE Vec0
        IN  (f.bounce_depth > 0 /\ f.hit_anything)
            => IF f.out.scatter
               THEN /\ d + 1 \in Returned
                    /\ frames[d + 1].r = f.out.scattered
                    /\ frames[d + 1].bounce_depth = f.bounce_depth - 1
                    /\ f.pixel.color =
                         VAdd(emission,
                              VMul(f.out.attenuation, frames[d + 1].pixel.color))
               ELSE f.pixel.color = emission

\* C7: getRayHit with a bounce budget <= 0 returns color (0,0,0), albedo
\* (0,0,0), normal (0,0,0) and depth 0.
C7_BudgetExhaustedZeroed ==
    \A d \in Returned :
        frames[d].bounce_depth <= 0
        => frames[d].pixel = [color |-> Vec0, albedo |-> Vec0,
                              normal |-> Vec0, depth |-> 0]

\* The activations of getRayHit that have returned and whose caller has not
\* yet gone on: each activation is in this set in the state its return leads
\* to, and its pixel does not change afterwards.
JustReturned ==
    { d \in Returned : d = 1 \/ frames[d - 1].pc = "wait" }

\* C8: with a positive budget, a ray that hits no surface inside the clip
\* interval is returned the background (1 - t) * (1,1,1) * exposure +
\* t * (0.5,0.7,1) * exposure, t = (y + 1) / 2 for the y of its normalized
\* direction, with albedo (0,0,0), normal (0,0,0) and depth clip_interval.max.
C8_Background ==
    \A d \in JustReturned :
        LET f == frames[d]
            y == normalize(f.r.dir)[2]
            t == FDiv(y + Scale, 2 * Scale)
            e == exposure
        IN  (f.bounce_depth > 0 /\ HitObjects(Len(objects), f.r) = {})
            => /\ f.pixel.color =
                    << FMul(Scale - t, e) + FMul(t, FMul(e, Scale \div 2)),
                       FMul(Scale - t, e) + FMul(t, FMul(e, 7 * (Scale \div 10))),
                       FMul(Scale - t, e) + FMul(t, e) >>
               /\ f.pixel.albedo = Vec0
               /\ f.pixel.normal = Vec0
               /\ f.pixel.depth = clip_interval.max

\* C8, witness: a ray with a positive budget has crossed a scene that holds an
\* object without hitting it and returned, its direction not horizontal.
C8_Witness ==
    \E d \in Returned :
        /\ frames[d].bounce_depth > 0
        /\ Len(objects) > 0
        /\ HitObjects(Len(objects), frames[d].r) = {}
        /\ normalize(frames[d].r.dir)[2] # 0

\* C9: the albedo, normal and depth of an activation that hit something are
\* those of its own hit, from the moment they are stored to the return,
\* whatever the recursive calls below it do; the depth returned for the
\* camera ray is that of the first hit along the ray.
C9_FirstHitAux ==
    /\ \A d \in 1..Len(frames) :
          LET f == frames[d]
          IN  (f.pc \in {"wait", "ret"} /\ f.hit_anything)
              => /\ f.pixel.albedo = f.albedo
                 /\ f.pixel.normal = f.rec.normal
                 /\ f.pixel.depth = f.rec.t
    /\ (/\ Len(frames) >= 1
        /\ frames[1].pc = "ret"
        /\ frames[1].hit_anything)
       => frames[1].pixel.depth = NearestT(Len(objects), frames[1].r)

\* C9, witness: the camera ray's activation has returned after two further
\* bounces, and the second hit lies at another depth, with another normal.
C9_Witness ==
    /\ Len(frames) >= 3
    /\ frames[1].pc = "ret"
    /\ frames[1].hit_anything /\ frames[2].hit_anything
    /\ frames[2].pixel.depth # frames[1].pixel.depth
    /\ frames[2].pixel.normal # frames[1].pixel.normal

\* The state of the nearest-hit loop of activation d after k - 1 objects: the
\* bound is the smallest hit parameter so far (the clip maximum when there is
\* none), and rec is the hit of the first object that attains it.
NearestSoFar(d) ==
    LET f    == frames[d]
        hits == HitObjects(f.k - 1, f.r)
    IN  IF hits = {}
        THEN ~f.hit_anything /\ f.closest_so_far = clip_interval.max
        ELSE LET tmin == NearestT(f.k - 1, f.r)
             IN  /\ f.hit_anything
                 /\ f.closest_so_far = tmin
                 /\ f.rec.t = tmin
                 /\ f.hit_index = SetMin({ i \in hits : tmin \in ClipRoots(i, f.r) })
                 /\ f.rec.mat = objects[f.hit_index].mat

\* C10: the nearest-hit loop yields, over the objects in insertion order, the
\* hit with the smallest t inside the clip interval, the first-added object
\* winning a tie, and the accepted upper bound never increases in the loop.
C10_NearestHit ==
    /\ [](\A d \in 1..Len(frames) : frames[d].pc = "loop" => NearestSoFar(d))
    /\ [][\A d \in 1..Len(frames) :
            (frames[d].pc = "loop" /\ Len(frames') >= d /\ frames'[d].pc = "loop"
             /\ frames'[d].r = frames[d].r)
            => frames'[d].closest_so_far <= frames[d].closest_so_far]_vars

\* C10, witness: the loop is over in a scene of two different spheres that
\* the ray hits at the same t, and the hit kept is the first one's.
C10_Witness ==
    \E d \in 1..Len(frames) :
        LET f == frames[d]
        IN  /\ f.pc = "loop" /\ f.k > Len(objects) /\ Len(objects) >= 2
            /\ objects[1] # objects[2]
            /\ ClipRoots(1, f.r) # {} /\ ClipRoots(2, f.r) # {}
            /\ SetMin(ClipRoots(1, f.r)) = SetMin(ClipRoots(2, f.r))
            /\ f.hit_index = 1

\* ------------------------------------------------ the claims, C11 to C17

SetMax(S) == CHOOSE x \in S : \A y \in S : x >= y

\* The roots of the sphere of hit_call that lie strictly inside its interval.
InsideRoots ==
    { t \in RootsOf(hit_call.s, hit_call.r) :
        hit_call.ray_t.min < t /\ t < hit_call.ray_t.max }

\* C11: Sphere::RayHit reports a hit exactly when the discriminant is not
\* negative and a root lies strictly between interval.min and interval.max;
\* the t it returns is then the near root if that one is inside and the far
\* root otherwise; a root equal to a bound is rejected, and the Empty
\* interval rejects every root.
C11_SphereRoots ==
    hit_call.pc = "done" =>
        /\ hit_call.hit <=> InsideRoots # {}
        /\ hit_call.hit => hit_call.rec.t = SetMin(InsideRoots)
        /\ hit_call.ray_t = IntervalEmpty => ~hit_call.hit
        /\ \A t \in RootsOf(hit_call.s, hit_call.r) :
              (t = hit_call.ray_t.min \/ t = hit_call.ray_t.max)
              => ~(hit_call.hit /\ hit_call.rec.t = t)

\* C11, witness: the near root equals interval.min, is rejected, and the far
\* root inside the interval is returned.
C11_Witness ==
    /\ hit_call.pc = "done"
    /\ hit_call.hit
    /\ SetMin(RootsOf(hit_call.s, hit_call.r)) = hit_call.ray_t.min
    /\ hit_call.rec.t = SetMax(RootsOf(hit_call.s, hit_call.r))
    /\ hit_call.rec.t # hit_call.ray_t.min

\* Every surface of the scene is Lambertian with albedo (0,0,0).
AllBlackDiffuse ==
    \A i \in 1..Len(objects) :
        objects[i].mat.kind = "Lambertian" /\ objects[i].mat.albedo = Vec0

\* Every camera ray of the pixel hits a surface of the scene.
CameraRaysHit == \A r \in BlackRays : HitObjects(Len(objects), r) # {}

C13_WriteKeepsBuffers ==
    /\ [](write.pc # "idle" => Maps = write.before)
    /\ [][Maps' = Maps]_vars
    /\ [][(write.pc = "encode" /\ write'.pc # "encode")
            => /\ write'.pc = "returned"
               /\ write'.out \in {"cout: Saved", "cerr: Failed to write PNG"}]_vars

\* C13, witness: Write(path, get_depth_map()) has returned after the encoder
\* failed, having clamped an element of its copy of the buffer.
C13_Witness ==
    /\ write.pc = "returned"
    /\ write.overload = "depth" /\ write.own
    /\ write.out = "cerr: Failed to write PNG"
    /\ \E idx \in Pixels :
          depth_map[idx] = infinity /\ write.d_buffer[idx] = max_depth_valid

\* C14: in the depth overload of Write the normalized value of every pixel is
\* a finite number, and so is the value that is clamped and turned into the
\* byte, for every buffer (non-finite, negative, zero or all-equal depths).
C14_DepthFinite ==
    (write.pc # "idle" /\ write.overload = "depth") =>
        \A idx \in Pixels :
            /\ isfinite(write.scaled[idx])
            /\ isfinite(write.gamma[idx])
            /\ write.write_buffer[idx][1] \in 0..255

\* The channel values of the buffer the color overload was called with, and
\* the bytes stored for them, as pairs.
Encoded ==
    { <<write.arg[idx][c], write.write_buffer[idx][c]>> :
        idx \in Pixels, c \in 1..3 }

\* C15: the bytes the color overload of Write stores are monotonic in the
\* channel values, for values >= 0, and lie in 0..255.
C15_EncodeMonotonic ==
    (write.pc # "idle" /\ write.overload = "color") =>
        /\ \A p \in Encoded : p[2] \in 0..255
        /\ \A p, q \in Encoded :
              (0 <= p[1] /\ p[1] < q[1]) => p[2] <= q[2]
        /\ \A p \in Encoded : p[1] >= 0 => p[2] = encode(p[1])

\* C15, witness: a written color buffer holds channel values 0 <= a < b < c
\* whose bytes are different for a and b and both 255 for b and c.
C15_Witness ==
    /\ write.pc = "returned" /\ write.overload = "color"
    /\ \E p, q, u \in Encoded :
          /\ 0 <= p[1] /\ p[1] < q[1] /\ q[1] < u[1]
          /\ p[2] < q[2] /\ q[2] = 255 /\ u[2] = 255

\* max(n, 0)
Max0(n) == IF n > 0 THEN n ELSE 0

\* The steps activation f of getRayHit has left when nothing is scattered:
\* the entry test, one step an object of the scene, the shading, the return
\* of the call it made.
Rank(f) ==
    CASE f.pc = "entry" -> Len(objects) + 4
      [] f.pc = "loop"  -> Len(objects) + 3 - f.k
      [] f.pc = "wait"  -> 1
      [] f.pc = "ret"   -> 0

RECURSIVE RankSum(_)
RankSum(d) == IF d = 0 THEN 0 ELSE Rank(frames[d]) + RankSum(d - 1)

\* A bound on the steps the running call of getRayHit has left: those of its
\* activations, and a whole activation for each bounce the deepest one may
\* still spend.
Variant ==
    LET last == frames[Len(frames)]
    IN  RankSum(Len(frames))
          + (Len(objects) + 5)
              * (IF last.pc \in {"entry", "loop"} THEN Max0(last.bounce_depth)
                                                 ELSE 0)

\* Some activation of the running call is at a statement it can execute.
CanStep ==
    \E d \in 1..Len(frames) :
        \/ frames[d].pc \in {"entry", "loop"}
        \/ /\ frames[d].pc = "wait"
           /\ d < Len(frames)
           /\ frames[d + 1].pc = "ret"

MetalShaded ==
    { d \in 1..Len(frames) : /\ frames[d].pc \in {"wait", "ret"}
                             /\ frames[d].hit_anything
                             /\ frames[d].rec.mat.kind = "Metal" }

\* C17: a Metal whose fuzzed reflection does not leave the surface reports
\* no scatter and no emission, and getRayHit then makes no recursive call and
\* returns the color (0,0,0); one whose reflection leaves the surface reports
\* a scatter with the metal's albedo as attenuation, which getRayHit follows.
C17_MetalAbsorbs ==
    sp.pc = "call" =>
      \A d \in MetalShaded :
          LET f == frames[d]
          IN  IF dot(f.out.scattered.dir, f.rec.normal) <= 0
              THEN /\ ~f.out.scatter /\ ~f.out.emit
                   /\ ~f.didScatter
                   /\ d = Len(frames)
                   /\ f.pc = "ret"
                   /\ f.pixel.color = Vec3(0, 0, 0)
              ELSE /\ f.out.scatter /\ ~f.out.emit
                   /\ f.out.attenuation = f.rec.mat.albedo
                   /\ f.attenuation = f.rec.mat.albedo
                   /\ d < Len(frames)
                   /\ frames[d + 1].r = f.out.scattered

\* C17, witness: a Metal was hit whose reflection points into the surface,
\* and that activation has returned.
C17_Witness ==
    /\ sp.pc = "call"
    /\ \E d \in MetalShaded :
          /\ dot(frames[d].out.scattered.dir, frames[d].rec.normal) <= 0
          /\ frames[d].pc = "ret"

\* ------------------------------------------------ the claims, C18 and C19

\* Every pixel of row r has been stored in the four buffers.
RowWritten(r) ==
    \A i \in 0..(canvas_width - 1) :
        /\ writes[Index(i, r)].color = 1 /\ writes[Index(i, r)].albedo = 1
        /\ writes[Index(i, r)].normal = 1 /\ writes[Index(i, r)].depth = 1

\* The rows worker w has executed the fetch_add for.
RowsCounted(w) ==
    (threads[w].j - threads[w].start_row)
      + (IF threads[w].pc \in {"lock", "print"} THEN 1 ELSE 0)

RECURSIVE RowsCountedUpTo(_)
RowsCountedUpTo(w) ==
    IF w = 0 THEN 0 ELSE RowsCounted(w) + RowsCountedUpTo(w - 1)

\* The lines of clog the workers printed: all of them but the "Done." line,
\* which the calling thread prints last.
WorkerLines ==
    1..(Len(clog) - (IF render.pc = "returned" THEN 1 ELSE 0))

\* The progress lines of the workers that show the last row.
LastLines ==
    { k \in WorkerLines : clog[k].completed = canvas_height }

\* Every worker has been joined.
AllJoined == render.pc \in {"log", "logging", "returned"}

\* C18: lines_done counts the rows the workers have finished: it is the
\* number of fetch_add calls made, one a row, and never more than the rows
\* whose pixels are all stored; a step that changes it adds one, is taken by
\* one worker whose row is fully stored, and gives that worker alone the new
\* value, so no value is seen twice; at most one worker prints the line of
\* the last row, and once the workers are joined the counter is
\* canvas_height and that line has been printed by exactly one of them.
C18_LinesDone ==
    /\ [](/\ lines_done = RowsCountedUpTo(Len(threads))
          /\ lines_done <= Cardinality({ r \in 0..(canvas_height - 1) :
                                           RowWritten(r) })
          /\ \A w \in 1..Len(threads) :
                threads[w].pc \in {"lock", "print"} =>
                    /\ threads[w].completed \in 1..lines_done
                    /\ \A v \in 1..Len(threads) :
                          (v # w /\ threads[v].pc \in {"lock", "print"}) =>
                              threads[v].completed # threads[w].completed
          /\ Cardinality(LastLines) <= 1
          /\ AllJoined => /\ lines_done = canvas_height
                          /\ Cardinality(LastLines) = 1)
    /\ [][lines_done' # lines_done =>
            /\ lines_done' = lines_done + 1
            /\ \E w \in 1..Len(threads) :
                  /\ threads[w].pc = "count"
                  /\ RowWritten(threads[w].j)
                  /\ threads'[w].completed = lines_done'
                  /\ \A v \in 1..Len(threads) :
                        v # w => threads'[v] = threads[v]]_vars

\* C18, witness: Render has returned after a worker other than the last one
\* started finished the last row of an image of three or more rows and
\* printed its line.
C18_Witness ==
    /\ render.pc = "returned"
    /\ canvas_height >= 3
    /\ \E k \in LastLines : clog[k].by < Len(threads)

\* Rows of the image Render is followed on with two progress lines: the
\* tenth row's and the last row's.
ProgressHeight == 11

\* Workers of that render: two, the fewest that can contend for the mutex.
ProgressThreads == Min(MaxThreads, 2)

\* Render is called for an empty scene on an image of more than ten rows.
InitProgress ==
    /\ stage = "build"
    /\ objects = <<>>
    /\ clip_interval = Interval(Scale \div 1000, infinity)
    /\ exposure = Scale
    /\ max_bouces = 10
    /\ samples_per_pixel = 1
    /\ pixel_samples_scale = FDiv(Scale, samples_per_pixel * Scale)
    /\ sp = [pc |-> "idle", sample |-> 0, pixel1 |-> PixelInfo(0),
             pixel |-> PixelInfo(0), set |-> FALSE]
    /\ frames = <<>>
    /\ canvas_height = ProgressHeight
    /\ canvas_width = 1
    /\ hardware_concurrency = ProgressThreads
    /\ RenderIdle
    /\ NoCalls

\* A step of the thread that called Render.
MainStep == RenderBegin \/ Spawn \/ Join \/ FinalLock \/ FinalPrint

\* A step of worker w.
WorkerStep(w) ==
    \/ WorkerRow(w)
    \/ WorkerRandRead(w, FALSE)
    \/ WorkerRandWrite(w, FALSE)
    \/ WorkerStore(w)
    \/ WorkerCount(w)
    \/ WorkerLock(w)
    \/ WorkerPrint(w)

\* One call of Render on the taller image, every interleaving of its
\* threads, where a thread that can run is not left waiting for ever.
SpecProgress ==
    /\ InitProgress
    /\ [][NextRender]_vars
    /\ WF_vars(MainStep)
    /\ \A w \in 1..ProgressThreads : WF_vars(WorkerStep(w))

\* The workers inside the block that prints a progress line.
Printing == { w \in 1..Len(threads) : threads[w].pc = "print" }

\* C19: console_mutex is locked exactly while one thread is in a block that
\* prints (a worker its progress line, the calling thread the closing line
\* after the join), so two threads are never there together; the thread that
\* stores a pixel or assigns the buffers does not hold it, the stream is
\* written by the holder alone, which unlocks it on leaving the block, and
\* no thread holds it while waiting for it or after Render returns.  A worker
\* waiting for it gets it, and Render returns.
C19_ConsoleMutex ==
    /\ [](/\ Cardinality(Printing)
               + (IF render.pc = "logging" THEN 1 ELSE 0) <= 1
          /\ \A w \in 1..Len(threads) :
                (threads[w].pc = "print") <=> (console_mutex = HeldBy(w))
          /\ (render.pc = "logging") <=> (console_mutex = HeldByMain)
          /\ (Printing = {} /\ render.pc # "logging") => console_mutex = Unlocked
          /\ render.pc = "returned" => console_mutex = Unlocked)
    /\ [][(\/ color_map' # color_map \/ albedo_map' # albedo_map
           \/ normal_map' # normal_map \/ depth_map' # depth_map) =>
            \/ render.pc = "idle" /\ console_mutex = Unlocked
            \/ \E w \in 1..Len(threads) :
                  /\ threads[w].pc = "store"
                  /\ threads'[w] # threads[w]
                  /\ console_mutex # HeldBy(w)
                  /\ console_mutex' = console_mutex]_vars
    /\ [][clog' # clog =>
            /\ console_mutex # Unlocked
            /\ console_mutex' = Unlocked
            /\ \/ console_mutex = HeldByMain /\ render.pc = "logging"
               \/ \E w \in Printing : /\ console_mutex = HeldBy(w)
                                      /\ threads'[w].pc # "print"]_vars
    /\ \A w \in 1..ProgressThreads :
          (w <= Len(threads) /\ threads[w].pc = "lock")
             ~> (w <= Len(threads) /\ threads[w].pc = "print")
    /\ <>(render.pc = "returned")

\* C19, witness: one worker is printing its progress line while another
\* waits for console_mutex.
C19_Witness ==
    \E w, v \in 1..Len(threads) :
        /\ threads[w].pc = "print"
        /\ threads[v].pc = "lock"

====
